---- MODULE Spec2Model ----
(***************************************************************************)
(* The voo agent: the orchestration loop of src/src/main.rs, the Gemini    *)
(* client of crates/models/src/models/gemini.rs and the tool registry of   *)
(* crates/domain/src/models/agent.rs.                                      *)
(*                                                                         *)
(* Strings are sequences of tokens (a token is a TLA+ string), so that     *)
(* formatting, prefix tests and substring tests are computed.  Option<T>   *)
(* is a sequence of length at most one.                                    *)
(***************************************************************************)
EXTENDS Integers, Sequences, FiniteSets, TLC

VARIABLES
    pc,                     \* position of main: see PcValues
    is_retry,               \* main.rs:49
    retry_attempt,          \* main.rs:51
    tools,                  \* Agent.tools, agent.rs:30 (a HashMap, as a set of entries)
    function_declarations,  \* GeminiModel.tools.function_declarations, gemini.rs:20
    conversation,           \* GeminiModel.conversation.contents, gemini.rs:19
    request,                \* the Prompt of the last query sent, gemini.rs:91
    last,                   \* the last query of the current loop iteration and how ask returned
    responses,              \* the contents of `responses` not yet visited, main.rs:87
    function_calls,         \* main.rs:88
    idx,                    \* position of perform_function_call in function_calls, main.rs:176
    tool_outputs,           \* main.rs:175
    tool_use,               \* the outputs of the batch not yet fed back, main.rs:114
    stdout,                 \* what the last step wrote to the terminal (println!, tracing)
    found,                  \* the result of the last registry lookup (registry specification)
    round_base,             \* length of the history when the current loop iteration began
    fc_responses,           \* contents carrying a function call returned in this iteration
    dispatch_rounds,        \* batches handed to perform_function_call in this iteration
    input,                  \* main.rs:59: what the read returned, or "Retry."
    succeeded,              \* positions of the batch whose exec has succeeded, in any attempt
    threads                 \* tasks that share the client and the registry: see SpecShared

vars == <<pc, is_retry, retry_attempt, tools, function_declarations, conversation,
          request, last, responses, function_calls, idx, tool_outputs,
          tool_use, stdout, found, round_base, fc_responses, dispatch_rounds,
          input, succeeded, threads>>

-----------------------------------------------------------------------------
(* Bounds of the model *)

\* longest conversation history explored
MaxHist == 10
\* most parts in one content of a backend reply
MaxParts == 2
\* most add_tool calls explored by the registry specification
MaxRegs == 4
\* longest history explored with tasks that share the client
MaxShared == 5

(* Program constants *)

max_retry == 3

-----------------------------------------------------------------------------
(* Option and Result *)

None == <<>>
Some(x) == <<x>>
IsSome(o) == o # <<>>
Unwrap(o) == o[1]

NoError == [kind |-> "none", msg |-> None]
Ok(v) == [ok |-> TRUE, val |-> v, err |-> NoError]
Err(e) == [ok |-> FALSE, val |-> <<>>, err |-> e]

-----------------------------------------------------------------------------
(* Strings *)

RECURSIVE Flatten(_)
Flatten(ss) == IF ss = <<>> THEN <<>> ELSE Head(ss) \o Flatten(Tail(ss))

starts_with_whole(s, prefix) == s = prefix

\* str::starts_with
starts_with(s, prefix) ==
    /\ Len(s) >= Len(prefix)
    /\ SubSeq(s, 1, Len(prefix)) = prefix

contains_at_start(s, pat) == Len(s) >= Len(pat) /\ SubSeq(s, 1, Len(pat)) = pat

\* str::contains
contains(s, pat) ==
    \E i \in 1..(Len(s) - Len(pat) + 1) : SubSeq(s, i, i + Len(pat) - 1) = pat

\* serde_json::to_string of a string: the string in quotes
json_to_string(s) == <<"\"">> \o s \o <<"\"">>

ExitCommand == <<"e", "x", "i", "t">>
RetryInput == <<"Retry.">>
ExpiredPattern == <<"API key expired.">>
NoResponseMsg == <<"No response from Gemini">>

-----------------------------------------------------------------------------
(* The data model: agent.rs:160-198, tools.rs:8-46 *)

Part(text) == [text |-> Some(text), function_call |-> None]
Content(parts, role) == [parts |-> parts, role |-> role]
FunctionCall(name, args) == [name |-> name, args |-> args]
FunctionCallPart(name, args) == [text |-> None, function_call |-> Some(FunctionCall(name, args))]

AgentErrorOf(msg) == [kind |-> "AgentError", msg |-> Some(msg)]
ExpiredApiKey == [kind |-> "ExpiredApiKey", msg |-> None]

\* impl Display for AgentError
AgentErrorToString(e) ==
    IF e.kind = "ExpiredApiKey" THEN <<"ExpiredApiKey">>
    ELSE IF e.kind = "UserInputError"
         THEN <<"UserInputError: ">> \o (IF IsSome(e.msg) THEN Unwrap(e.msg) ELSE <<>>)
         ELSE <<"AgentError: ">> \o (IF IsSome(e.msg) THEN Unwrap(e.msg) ELSE <<>>)

\* impl Display for ToolError
ToolErrorToString(e) ==
    IF e.kind = "FileNotFound" THEN <<"File not found: ">> \o e.msg
    ELSE IF e.kind = "ListFile" THEN <<"List file error: ">> \o e.msg
    ELSE <<"Tool error: ">> \o e.msg

Tool(name, description) == [name |-> name, description |-> description]
tool_definition(tool) == [name |-> tool.name, description |-> tool.description]

-----------------------------------------------------------------------------
(* The tool registry: Agent, agent.rs:27-55.  The HashMap is the set of its *)
(* entries.                                                                *)

HashMapInsertAlone(m, k, v) == {[key |-> k, value |-> v]}

HashMapInsertKeepBoth(m, k, v) == m \cup {[key |-> k, value |-> v]}

\* HashMap::insert: the entry of an equal key is replaced
HashMapInsert(m, k, v) == {e \in m : e.key # k} \cup {[key |-> k, value |-> v]}

\* a lookup that finds only the tools declared in the query last sent
HashMapGetDeclared(m, k) ==
    IF /\ \E e \in m : e.key = k
       /\ \E i \in DOMAIN request.tools[1].function_declarations :
              request.tools[1].function_declarations[i].name = k
    THEN Some((CHOOSE e \in m : e.key = k).value)
    ELSE None

\* HashMap::get
HashMapGet(m, k) ==
    IF \E e \in m : e.key = k
    THEN Some((CHOOSE e \in m : e.key = k).value)
    ELSE None

\* GeminiModel::add_tool
ClientAddTool(decls, tool) == Append(decls, tool_definition(tool))

-----------------------------------------------------------------------------
(* The conversation history and the backend client: gemini.rs:78-180 *)

InitialPrompt == Content(<<Part(<<"You are VOO">>)>>, "model")

add_system_prompt_overwrite(conv, prompt, role) ==
    [conv EXCEPT ![Len(conv)] = Content(<<Part(prompt)>>, role)]

\* GeminiModel::add_system_prompt
add_system_prompt(conv, prompt, role) == Append(conv, Content(<<Part(prompt)>>, role))

\* main.rs calls add_system_prompt with the text only (the trait of agent.rs:19);
\* such turns are feedback turns
FeedbackDropped(conv, prompt) == conv

Feedback(conv, prompt) == add_system_prompt(conv, prompt, "user")

AskSendTwice(conv, prompt) ==
    Append(Append(conv, Content(<<Part(prompt)>>, "user")), Content(<<Part(prompt)>>, "user"))

\* ask, lines 82-85: the prompt is pushed as a user turn
AskSend(conv, prompt) == Append(conv, Content(<<Part(prompt)>>, "user"))

\* ask, lines 87-91: the request carries a copy of the history and of the declarations
MakePrompt(conv, decls) == [contents |-> conv, tools |-> <<[function_declarations |-> decls]>>]

\* a backend answer: a transport or parse failure, or a GeminiResponse
NetFailure(msg) == [failure |-> Some(msg), error |-> None, candidates |-> None]
ErrorEnvelope(msg) == [failure |-> None, error |-> Some(msg), candidates |-> None]
Candidates(cs) == [failure |-> None, error |-> None, candidates |-> cs]

\* ask, lines 126-135: the text of every part of every content, "" for a part without text
TextsOf(contents) ==
    LET parts == Flatten([i \in 1..Len(contents) |-> contents[i].parts])
    IN  [i \in 1..Len(parts) |-> IF IsSome(parts[i].text) THEN Unwrap(parts[i].text) ELSE <<>>]

is_empty_never(texts) == FALSE

\* ask, line 137
is_empty(texts) == texts = <<>>

\* ask, lines 143-150: every non-empty text is recorded as a model turn
RECURSIVE RecordTexts(_, _)
RecordTexts(conv, texts) ==
    IF texts = <<>> THEN conv
    ELSE IF Head(texts) = <<>> THEN RecordTexts(conv, Tail(texts))
    ELSE RecordTexts(add_system_prompt(conv, Head(texts), "model"), Tail(texts))

\* ask, lines 93-152: what ask returns for a backend answer, and the history it leaves
AskReceive(conv, rep) ==
    IF IsSome(rep.failure)
    THEN [result |-> Err(AgentErrorOf(Unwrap(rep.failure))), conv |-> conv]
    ELSE IF IsSome(rep.error)
    THEN IF contains(Unwrap(rep.error), ExpiredPattern)
         THEN [result |-> Err(ExpiredApiKey), conv |-> conv]
         ELSE [result |-> Err(AgentErrorOf(Unwrap(rep.error))), conv |-> conv]
    ELSE LET contents == IF IsSome(rep.candidates) THEN Unwrap(rep.candidates) ELSE <<>>
             texts == TextsOf(contents)
         IN  IF is_empty(texts)
             THEN [result |-> Err(AgentErrorOf(NoResponseMsg)), conv |-> conv]
             ELSE [result |-> Ok(contents), conv |-> RecordTexts(conv, texts)]

-----------------------------------------------------------------------------
(* Output: println! and the tracing fmt layer both write to the terminal *)

Println(text) == [kind |-> "println", text |-> text]
LogError(text) == [kind |-> "error", text |-> text]
LogInfo(text) == [kind |-> "info", text |-> text]

\* print_response, main.rs:156-169
RECURSIVE print_response(_, _, _)
print_response(conv, out, parts) ==
    IF parts = <<>> THEN [conv |-> conv, out |-> out]
    ELSE LET text == Head(parts).text
         IN  IF text = None
             THEN print_response(conv,
                      Append(out, LogError(<<"Error: empty response from simple prompt">>)),
                      Tail(parts))
             ELSE print_response(Feedback(conv, Unwrap(text)),
                      Append(out, Println(Unwrap(text))),
                      Tail(parts))

\* main.rs:129-131
RECURSIVE PrintContents(_, _, _)
PrintContents(conv, out, contents) ==
    IF contents = <<>> THEN [conv |-> conv, out |-> out]
    ELSE LET p == print_response(conv, out, Head(contents).parts)
         IN  PrintContents(p.conv, p.out, Tail(contents))

-----------------------------------------------------------------------------
(* Reading input: agent.rs:85-112 *)

\* what the terminal does during one read: the stage that fails, if any, with the
\* io error, and the line that read_line leaves in the buffer
TerminalTyped(line) == [failed |-> "none", error |-> <<>>, line |-> line]
TerminalFails(stage, error) == [failed |-> stage, error |-> error, line |-> <<>>]

UserInputError(msg) == [kind |-> "UserInputError", msg |-> Some(msg)]

TerminalInputReaderReadTrimmed(io) ==
    IF io.failed # "none" THEN Err(UserInputError(io.error))
    ELSE Ok(SelectSeq(io.line, LAMBDA ch : ch # "\n"))

\* TerminalInputReader::read, agent.rs:94-111: the prompt is written and flushed, and
\* the line is returned as read_line left it
TerminalInputReaderRead(io) ==
    IF io.failed = "flush" THEN Err(UserInputError(<<"Error flushing stdout: ">> \o io.error))
    ELSE IF io.failed # "none" THEN Err(UserInputError(io.error))
    ELSE Ok(io.line)

\* what read wrote to the terminal, agent.rs:97-99
TerminalPrompt(io) ==
    IF io.failed = "write_all" THEN <<>> ELSE <<[kind |-> "write", text |-> <<"YOU: ">>]>>

\* agent.reader().read(), agent.rs:85-87 and main.rs:60-62: the agent hands out the
\* reader it holds, which Agent::new made a TerminalInputReader (agent.rs:37)
AgentReaderRead(io) == TerminalInputReaderRead(io)

-----------------------------------------------------------------------------
(* The inputs explored *)

\* lines the user types
Lines == {ExitCommand, <<"e", "x", "i", "t", "\n">>, <<"h", "i">>}

\* reads that fail
FailedReads == {TerminalFails("read_line", <<"stream did not contain valid UTF-8">>),
                TerminalFails("flush", <<"Broken pipe">>)}

ReadFileTool == Tool("read_file", "Read the contents of a given relative file path.")
ListFileTool == Tool("list_files", "List the files of a given relative file path.")

\* tool names the model calls; write_file is registered nowhere
CallNames == {"read_file", "write_file"}
Args == <<"{\"path\":\".\"}">>
ModelText == <<"Found 2 files.">>

Parts == {Part(ModelText)} \cup {FunctionCallPart(n, Args) : n \in CallNames}
PartSeqs == UNION {[1..n -> Parts] : n \in 0..MaxParts}
\* generateContent answers with one candidate unless the request asks for more, and the
\* Prompt of gemini.rs:183-195 has no field to ask for more
ContentSeqs == {<<>>} \cup {<<Content(ps, "model")>> : ps \in PartSeqs}
ErrorMessages == {ExpiredPattern,
                  <<"Request failed: ", "API key expired.", " Renew the key.">>,
                  <<"Quota exceeded.">>}

\* what the backend may answer to a query
Replies ==
    {NetFailure(<<"connection refused">>)}
    \cup {ErrorEnvelope(m) : m \in ErrorMessages}
    \cup {Candidates(None)}
    \cup {Candidates(Some(cs)) : cs \in ContentSeqs}

\* Tool::exec: the outcome depends on the file system, read_file.rs:79-89 and
\* list_files.rs:89-121
ExecOutcomes(tool) ==
    IF tool.name = "read_file"
    THEN {Ok(<<"fn main() {}">>), Err([kind |-> "FileNotFound", msg |-> <<"No such file">>])}
    ELSE {Ok(<<"a.txt, b.txt">>), Err([kind |-> "ListFile", msg |-> <<".: No such file">>])}

-----------------------------------------------------------------------------
(* main, src/src/main.rs *)

PcValues == {"setup", "top", "asking", "dispatch", "feed", "followup",
             "done", "failed", "panicked"}

ResetRetryLate(r, n) ==
    IF n > max_retry THEN [is_retry |-> FALSE, retry_attempt |-> 0]
    ELSE [is_retry |-> r, retry_attempt |-> n]

\* main.rs:54-57
ResetRetry(r, n) ==
    IF n >= max_retry THEN [is_retry |-> FALSE, retry_attempt |-> 0]
    ELSE [is_retry |-> r, retry_attempt |-> n]

\* main.rs:88-93
FunctionCallsOf(content) == [i \in 1..Len(content.parts) |-> content.parts[i].function_call]
has_function_call(fcs) == \E i \in 1..Len(fcs) : IsSome(fcs[i])
CountFunctionCallContents(contents) ==
    Cardinality({i \in 1..Len(contents) : has_function_call(FunctionCallsOf(contents[i]))})

NextCallLast(fcs, i) ==
    IF \E j \in i..Len(fcs) : IsSome(fcs[j])
    THEN CHOOSE j \in i..Len(fcs) : IsSome(fcs[j]) /\ \A k \in (j + 1)..Len(fcs) : ~IsSome(fcs[k])
    ELSE Len(fcs) + 1

\* main.rs:176-177: the first function call at or after position i
NextCall(fcs, i) ==
    IF \E j \in i..Len(fcs) : IsSome(fcs[j])
    THEN CHOOSE j \in i..Len(fcs) : IsSome(fcs[j]) /\ \A k \in i..(j - 1) : ~IsSome(fcs[k])
    ELSE Len(fcs) + 1

\* main.rs:87-137, the for loop over responses from the content at the head of resps:
\* text-only contents are printed; the loop stops at the first content that carries a
\* function call, or at the end
RECURSIVE ProcessResponses(_, _, _)
ProcessResponses(resps, conv, out) ==
    IF resps = <<>>
    THEN [pc |-> "top", responses |-> <<>>, function_calls |-> <<>>, idx |-> 1,
          conv |-> conv, out |-> out, rounds |-> 0]
    ELSE LET fcs == FunctionCallsOf(Head(resps))
         IN  IF has_function_call(fcs)
             THEN [pc |-> "dispatch", responses |-> Tail(resps), function_calls |-> fcs,
                   idx |-> NextCall(fcs, 1), conv |-> conv, out |-> out, rounds |-> 1]
             ELSE LET p == print_response(conv, out, Head(resps).parts)
                  IN  ProcessResponses(Tail(resps), p.conv, p.out)

\* main.rs:114-117: the outputs that are fed back; an empty output is skipped
FedBack(outputs) == SelectSeq(outputs, LAMBDA o : o # <<>>)

\* main.rs:114-137: where main goes with tu the outputs still to feed back
Continue(tu, resps, conv, out) ==
    IF tu # <<>>
    THEN [pc |-> "feed", responses |-> resps, function_calls |-> <<>>, idx |-> 1,
          conv |-> conv, out |-> out, rounds |-> 0]
    ELSE ProcessResponses(resps, conv, out)

Goto(c) ==
    /\ pc' = c.pc
    /\ responses' = c.responses
    /\ function_calls' = c.function_calls
    /\ idx' = c.idx
    /\ conversation' = c.conv
    /\ stdout' = c.out
    /\ dispatch_rounds' = dispatch_rounds + c.rounds
    /\ Len(conversation') <= MaxHist

\* a loop iteration begins: no query yet
NoQuery == [query |-> "none", result |-> "none", zero_parts |-> FALSE]

\* a query was sent: main.rs:80 (for user input or "Retry.") or main.rs:120 (followup)
Sent(query) == [query |-> query, result |-> "pending", zero_parts |-> FALSE]

\* ask returned: how, and whether the backend answered with a response of zero parts
Returned(l, rep, result) ==
    [query |-> l.query,
     result |-> IF result.ok THEN "ok"
                ELSE IF result.err = ExpiredApiKey THEN "expired" ELSE "error",
     zero_parts |-> /\ rep.failure = None
                    /\ rep.error = None
                    /\ TextsOf(IF IsSome(rep.candidates) THEN Unwrap(rep.candidates) ELSE <<>>) = <<>>]

\* no task holds the lock: a lock().await of main goes through
Unlocked(lock) == \A t \in DOMAIN threads : lock \notin threads[t].guards

ReadFailsAndReadsAgain(io) ==
    /\ pc = "top"
    /\ ~ResetRetry(is_retry, retry_attempt).is_retry
    /\ input' = AgentReaderRead(io)
    /\ ~input'.ok
    /\ stdout' = TerminalPrompt(io)
    /\ UNCHANGED <<pc, is_retry, retry_attempt, last, tools, function_declarations,
                   conversation, request, responses, function_calls, idx, tool_outputs,
                   tool_use, found, round_base, fc_responses, dispatch_rounds, succeeded, threads>>

\* main.rs:59-63, reader().read() fails: main returns the error
ReadFails(io) ==
    /\ pc = "top"
    /\ LET s == ResetRetry(is_retry, retry_attempt)
       IN  /\ ~s.is_retry
           /\ is_retry' = s.is_retry
           /\ retry_attempt' = s.retry_attempt
    /\ input' = AgentReaderRead(io)
    /\ ~input'.ok
    /\ pc' = "failed"
    /\ stdout' = TerminalPrompt(io)
    /\ last' = NoQuery
    /\ UNCHANGED <<tools, function_declarations, conversation, request,
                   responses, function_calls, idx, tool_outputs, tool_use, found,
                   round_base, fc_responses, dispatch_rounds, succeeded, threads>>

\* main.rs:53-80, a line is read: exit ends the loop, any other line is sent to the model
ReadLine(line) ==
    /\ pc = "top"
    /\ LET s == ResetRetry(is_retry, retry_attempt)
       IN  /\ ~s.is_retry
           /\ is_retry' = s.is_retry
           /\ retry_attempt' = s.retry_attempt
    /\ input' = AgentReaderRead(TerminalTyped(line))
    /\ input'.ok
    /\ IF starts_with(input'.val, ExitCommand)
       THEN /\ pc' = "done"
            /\ stdout' = TerminalPrompt(TerminalTyped(line)) \o <<LogInfo(<<"Bye!">>)>>
            /\ last' = NoQuery
            /\ UNCHANGED <<conversation, request, round_base, fc_responses,
                           dispatch_rounds>>
       ELSE /\ Unlocked("conversation") /\ Unlocked("declarations")
            /\ pc' = "asking"
            /\ last' = Sent("input")
            /\ conversation' = AskSend(conversation, input'.val)
            /\ Len(conversation') <= MaxHist
            /\ request' = MakePrompt(conversation', function_declarations)
            /\ round_base' = Len(conversation)
            /\ fc_responses' = 0
            /\ dispatch_rounds' = 0
            /\ stdout' = TerminalPrompt(TerminalTyped(line))
    /\ UNCHANGED <<tools, function_declarations, responses,
                   function_calls, idx, tool_outputs, tool_use, found, succeeded, threads>>

\* main.rs:53-80 with is_retry set: "Retry." is sent without reading input
RetryQuery ==
    /\ pc = "top"
    /\ LET s == ResetRetry(is_retry, retry_attempt)
       IN  /\ s.is_retry
           /\ is_retry' = s.is_retry
           /\ retry_attempt' = s.retry_attempt + 1
    /\ input' = Ok(RetryInput)
    /\ ~starts_with(input'.val, ExitCommand)
    /\ Unlocked("conversation") /\ Unlocked("declarations")
    /\ pc' = "asking"
    /\ last' = Sent("retry")
    /\ stdout' = <<LogInfo(<<"Retrying...">>)>>
    /\ conversation' = AskSend(conversation, RetryInput)
    /\ Len(conversation') <= MaxHist
    /\ request' = MakePrompt(conversation', function_declarations)
    /\ round_base' = Len(conversation)
    /\ fc_responses' = 0
    /\ dispatch_rounds' = 0
    /\ UNCHANGED <<tools, function_declarations, responses,
                   function_calls, idx, tool_outputs, tool_use, found, succeeded, threads>>

\* main.rs:80-150: the query of line 80 returns
AskReturns(rep) ==
    /\ pc = "asking"
    /\ Unlocked("conversation")
    /\ LET a == AskReceive(conversation, rep)
       IN  /\ last' = Returned(last, rep, a.result)
           /\ IF a.result.ok
              THEN /\ is_retry' = FALSE
                   /\ fc_responses' = CountFunctionCallContents(a.result.val)
                   /\ Goto(ProcessResponses(a.result.val, a.conv, <<>>))
              ELSE IF a.result.err = ExpiredApiKey
              THEN /\ pc' = "done"
                   /\ stdout' = Append(<<>>, LogError(<<"API key expired. Please update the API key in the .env file.">>))
                   /\ conversation' = a.conv
                   /\ UNCHANGED <<is_retry, responses, function_calls, idx, fc_responses,
                                  dispatch_rounds>>
              ELSE /\ pc' = "top"
                   /\ stdout' = <<LogError(AgentErrorToString(a.result.err))>>
                   /\ conversation' = Feedback(a.conv, AgentErrorToString(a.result.err))
                   /\ Len(conversation') <= MaxHist
                   /\ is_retry' = TRUE
                   /\ UNCHANGED <<responses, function_calls, idx, fc_responses,
                                  dispatch_rounds>>
    /\ succeeded' = {}
    /\ UNCHANGED <<retry_attempt, tools, function_declarations, request, tool_outputs,
                   tool_use, found, round_base, input, threads>>

\* perform_function_call, main.rs:176-196, for the call at idx, and what main does
\* with its return: main.rs:96-112
ExecCall ==
    /\ pc = "dispatch"
    /\ Unlocked("registry")
    /\ LET fc == Unwrap(function_calls[idx])
           tool == HashMapGet(tools, fc.name)
       IN  IF tool = None
           THEN \* line 181: unwrap of None panics
                /\ pc' = "panicked"
                /\ stdout' = <<>>
                /\ UNCHANGED <<is_retry, conversation, responses, function_calls, idx,
                               tool_outputs, tool_use, dispatch_rounds, succeeded>>
           ELSE \E res \in ExecOutcomes(Unwrap(tool)) :
                LET echo == <<Println(<<fc.name, "> ">> \o fc.args)>>
                IN  IF ~res.ok
                    THEN LET e == <<"Error executing tool: ">> \o ToolErrorToString(res.err)
                         IN  /\ stdout' = Append(echo, LogError(e))
                             /\ conversation' = Feedback(conversation, <<"Error performing function call: ">> \o e)
                             /\ Len(conversation') <= MaxHist
                             /\ is_retry' = TRUE
                             /\ idx' = NextCall(function_calls, 1)
                             /\ tool_outputs' = <<>>
                             /\ UNCHANGED <<pc, responses, function_calls, tool_use,
                                            dispatch_rounds, succeeded>>
                    ELSE LET outs == Append(tool_outputs, json_to_string(res.val))
                             j == NextCall(function_calls, idx + 1)
                         IN  IF j <= Len(function_calls)
                             THEN /\ idx' = j
                                  /\ tool_outputs' = outs
                                  /\ stdout' = echo
                                  /\ succeeded' = succeeded \cup {idx}
                                  /\ UNCHANGED <<pc, is_retry, conversation, responses,
                                                 function_calls, tool_use, dispatch_rounds>>
                             ELSE /\ tool_outputs' = <<>>
                                  /\ tool_use' = FedBack(outs)
                                  /\ Goto(Continue(tool_use', responses, conversation, echo))
                                  /\ succeeded' = {}
                                  /\ UNCHANGED is_retry
    /\ UNCHANGED <<retry_attempt, tools, function_declarations, request, last,
                   found, round_base, fc_responses, input, threads>>

FollowupAskWithoutWaiting ==
    /\ pc \in {"feed", "followup"}
    /\ tool_use # <<>>
    /\ LET prompt == <<"Tool use output:\n\n">> \o Head(tool_use) \o <<"\n">>
       IN  conversation' = AskSend(conversation, prompt)
    /\ Len(conversation') <= MaxHist
    /\ request' = MakePrompt(conversation', function_declarations)
    /\ tool_use' = Tail(tool_use)
    /\ pc' = "followup"
    /\ last' = Sent("followup")
    /\ stdout' = <<>>
    /\ UNCHANGED <<is_retry, retry_attempt, tools, function_declarations,
                   responses, function_calls, idx, tool_outputs, found, round_base,
                   fc_responses, dispatch_rounds, input, succeeded, threads>>

\* main.rs:114-120: the next output is sent to the model
FollowupAsk ==
    /\ pc = "feed"
    /\ Unlocked("conversation") /\ Unlocked("declarations")
    /\ LET prompt == <<"Tool use output:\n\n">> \o Head(tool_use) \o <<"\n">>
       IN  conversation' = AskSend(conversation, prompt)
    /\ Len(conversation') <= MaxHist
    /\ request' = MakePrompt(conversation', function_declarations)
    /\ tool_use' = Tail(tool_use)
    /\ pc' = "followup"
    /\ last' = Sent("followup")
    /\ stdout' = <<>>
    /\ UNCHANGED <<is_retry, retry_attempt, tools, function_declarations,
                   responses, function_calls, idx, tool_outputs, found, round_base,
                   fc_responses, dispatch_rounds, input, succeeded, threads>>

\* main.rs:120-133: the query of line 120 returns
FollowupReturns(rep) ==
    /\ pc = "followup"
    /\ Unlocked("conversation")
    /\ LET a == AskReceive(conversation, rep)
           h == IF a.result.ok
                THEN PrintContents(a.conv, <<>>, a.result.val)
                ELSE [conv |-> Feedback(a.conv, AgentErrorToString(a.result.err)),
                      out |-> <<LogError(AgentErrorToString(a.result.err))>>]
       IN  /\ last' = Returned(last, rep, a.result)
           /\ fc_responses' = fc_responses + CountFunctionCallContents(a.result.val)
           /\ Goto(Continue(tool_use, responses, h.conv, h.out))
    /\ UNCHANGED <<is_retry, retry_attempt, tools, function_declarations, request,
                   tool_outputs, tool_use, found, round_base, input, succeeded, threads>>

\* main.rs:22-51: the client and the agent are built, both tools are registered
Init ==
    /\ pc = "top"
    /\ is_retry = FALSE
    /\ retry_attempt = 0
    /\ tools = HashMapInsert(HashMapInsert({}, ReadFileTool.name, ReadFileTool),
                             ListFileTool.name, ListFileTool)
    /\ function_declarations = ClientAddTool(ClientAddTool(<<>>, ReadFileTool), ListFileTool)
    /\ conversation = <<InitialPrompt>>
    /\ request = MakePrompt(<<>>, <<>>)
    /\ last = NoQuery
    /\ responses = <<>>
    /\ function_calls = <<>>
    /\ idx = 1
    /\ tool_outputs = <<>>
    /\ tool_use = <<>>
    /\ stdout = <<Println(<<"Chat with VOO (use 'ctrl-c' to quit)\n">>)>>
    /\ found = None
    /\ round_base = 1
    /\ fc_responses = 0
    /\ dispatch_rounds = 0
    /\ input = Ok(<<>>)
    /\ succeeded = {}
    /\ threads = <<>>

Next ==
    \/ \E io \in FailedReads : ReadFails(io)
    \/ \E line \in Lines : ReadLine(line)
    \/ RetryQuery
    \/ \E rep \in Replies : AskReturns(rep)
    \/ ExecCall
    \/ FollowupAsk
    \/ \E rep \in Replies : FollowupReturns(rep)

Spec == Init /\ [][Next]_vars

-----------------------------------------------------------------------------
(* main with a model that calls both registered tools, to tell the calls of a batch *)
(* apart                                                                            *)

BatchCallNames == {ReadFileTool.name, ListFileTool.name}
BatchParts == {Part(ModelText)} \cup {FunctionCallPart(n, Args) : n \in BatchCallNames}
BatchReplies ==
    {Candidates(Some(<<Content(ps, "model")>>)) : ps \in UNION {[1..n -> BatchParts] : n \in 1..MaxParts}}
FollowReplies ==
    {Candidates(Some(<<Content(<<Part(ModelText)>>, "model")>>)),
     ErrorEnvelope(<<"Quota exceeded.">>)}

NextBatch ==
    \/ \E io \in FailedReads : ReadFails(io)
    \/ \E line \in Lines : ReadLine(line)
    \/ RetryQuery
    \/ \E rep \in BatchReplies : AskReturns(rep)
    \/ ExecCall
    \/ FollowupAsk
    \/ \E rep \in FollowReplies : FollowupReturns(rep)

SpecBatch == Init /\ [][NextBatch]_vars

-----------------------------------------------------------------------------
(* The registry alone: any sequence of Agent::add_tool calls and lookups *)

RegistryNames == {"read_file", "list_files"}
RegistryTools == {Tool(n, d) : n \in RegistryNames, d \in {"first description", "second description"}}

\* Agent::new, agent.rs:34-40, and GeminiModel::new, gemini.rs:63-65
InitRegistry ==
    /\ pc = "setup"
    /\ is_retry = FALSE
    /\ retry_attempt = 0
    /\ tools = {}
    /\ function_declarations = <<>>
    /\ conversation = <<InitialPrompt>>
    /\ request = MakePrompt(<<>>, <<>>)
    /\ last = NoQuery
    /\ responses = <<>>
    /\ function_calls = <<>>
    /\ idx = 1
    /\ tool_outputs = <<>>
    /\ tool_use = <<>>
    /\ stdout = <<>>
    /\ found = None
    /\ round_base = 1
    /\ fc_responses = 0
    /\ dispatch_rounds = 0
    /\ input = Ok(<<>>)
    /\ succeeded = {}
    /\ threads = <<>>

\* Agent::add_tool, agent.rs:42-50
AgentAddTool(tool) ==
    /\ pc = "setup"
    /\ Len(function_declarations) < MaxRegs
    /\ tools' = HashMapInsert(tools, tool.name, tool)
    /\ function_declarations' = ClientAddTool(function_declarations, tool)
    /\ UNCHANGED <<pc, is_retry, retry_attempt, conversation, request, last, responses,
                   function_calls, idx, tool_outputs, tool_use, stdout, found, round_base,
                   fc_responses, dispatch_rounds, input, succeeded, threads>>

\* the lookup of main.rs:181: agent_tools.lock().await.get(&tool_name)
Lookup(name) ==
    /\ pc = "setup"
    /\ found' = Some([name |-> name, tool |-> HashMapGet(tools, name)])
    /\ UNCHANGED <<pc, is_retry, retry_attempt, tools, function_declarations, conversation,
                   request, last, responses, function_calls, idx, tool_outputs, tool_use,
                   stdout, round_base, fc_responses, dispatch_rounds, input, succeeded, threads>>

NextRegistry ==
    \/ \E tool \in RegistryTools : AgentAddTool(tool)
    \/ \E name \in RegistryNames : Lookup(name)

SpecRegistry == InitRegistry /\ [][NextRegistry]_vars

-----------------------------------------------------------------------------
(* Tasks that share the client (an Arc<dyn AgentClient>, agent.rs:29) or the registry   *)
(* (an Arc<Mutex<HashMap>>, agent.rs:30 and 52-54).  A step is what a task does while   *)
(* it holds one lock: every lock().await of gemini.rs and agent.rs guards one statement. *)
(* A task calls a function, takes the lock of the statement it is at, and executes the   *)
(* statement, at the end of which the guard is dropped.                                   *)

ThreadIds == {"a", "b"}

IdleThread == [pc |-> "idle", prompt |-> <<>>, decls |-> <<>>,
               request |-> MakePrompt(<<>>, <<>>), texts |-> <<>>, tool |-> None,
               guards |-> {}]

\* the Mutex locked by the statement a task is at: conversation (gemini.rs:19),
\* declarations (gemini.rs:20), registry (agent.rs:30)
LockAt(at) ==
    CASE at \in {"ask_84", "ask_88", "ask_149", "add_system_prompt_171"} -> "conversation"
      [] at \in {"ask_87", "add_tool_47"} -> "declarations"
      [] at \in {"add_tool_43", "perform_function_call_181"} -> "registry"
      [] OTHER -> "none"

\* the statements that push a turn to the history
Appends(at) == at \in {"ask_84", "ask_149", "add_system_prompt_171"}

\* the guards a task holds after the statement that locked lock
Release(t, lock) == threads[t].guards \ {lock}

main_vars == <<pc, is_retry, retry_attempt, request, last, responses, function_calls, idx,
               tool_outputs, tool_use, stdout, round_base, fc_responses, dispatch_rounds,
               input, succeeded>>

\* Agent::new and GeminiModel::new, with the tasks idle
InitShared ==
    /\ pc = "setup"
    /\ is_retry = FALSE
    /\ retry_attempt = 0
    /\ tools = {}
    /\ function_declarations = <<>>
    /\ conversation = <<InitialPrompt>>
    /\ request = MakePrompt(<<>>, <<>>)
    /\ last = NoQuery
    /\ responses = <<>>
    /\ function_calls = <<>>
    /\ idx = 1
    /\ tool_outputs = <<>>
    /\ tool_use = <<>>
    /\ stdout = <<>>
    /\ found = None
    /\ round_base = 1
    /\ fc_responses = 0
    /\ dispatch_rounds = 0
    /\ input = Ok(<<>>)
    /\ succeeded = {}
    /\ threads = [t \in ThreadIds |-> IdleThread]

SharedPrompts == {<<"h", "i">>}
SharedNotes == {<<"note">>}

\* add_tool calls begun, finished or not
Registrations ==
    Len(function_declarations) + Cardinality({t \in ThreadIds : threads[t].pc = "add_tool_47"})

\* a task calls ask, add_system_prompt, add_tool or perform_function_call
TaskCall(t, entry) ==
    /\ threads[t].pc = "idle"
    /\ threads' = [threads EXCEPT ![t].pc = entry]
    /\ UNCHANGED <<main_vars, tools, function_declarations, conversation, found>>

\* lock().await: the task takes the lock of its statement once no task holds it
TaskAcquire(t) ==
    /\ LockAt(threads[t].pc) # "none"
    /\ LockAt(threads[t].pc) \notin threads[t].guards
    /\ \A u \in ThreadIds : LockAt(threads[t].pc) \notin threads[u].guards
    /\ Appends(threads[t].pc) => Len(conversation) < MaxShared
    /\ threads[t].pc = "add_tool_43" => Registrations < MaxRegs
    /\ threads' = [threads EXCEPT ![t].guards = @ \cup {LockAt(threads[t].pc)}]
    /\ UNCHANGED <<main_vars, tools, function_declarations, conversation, found>>

\* a push of ask that keeps the guard of the history past its statement
TaskAskPushKeepsGuard(t, prompt) ==
    /\ threads[t].pc = "ask_84"
    /\ "conversation" \in threads[t].guards
    /\ Len(conversation) < MaxShared
    /\ conversation' = AskSend(conversation, prompt)
    /\ threads' = [threads EXCEPT ![t] = [IdleThread EXCEPT !.pc = "ask_87", !.prompt = prompt,
                                                            !.guards = threads[t].guards]]
    /\ UNCHANGED <<main_vars, tools, function_declarations, found>>

\* ask, gemini.rs:82-85: the prompt is pushed under the lock of the history
TaskAskPush(t, prompt) ==
    /\ threads[t].pc = "ask_84"
    /\ "conversation" \in threads[t].guards
    /\ Len(conversation) < MaxShared
    /\ conversation' = AskSend(conversation, prompt)
    /\ threads' = [threads EXCEPT ![t] = [IdleThread EXCEPT !.pc = "ask_87", !.prompt = prompt,
                                                            !.guards = Release(t, "conversation")]]
    /\ UNCHANGED <<main_vars, tools, function_declarations, found>>

\* ask, gemini.rs:87: the declarations are cloned under the lock of the declarations
TaskAskCloneTools(t) ==
    /\ threads[t].pc = "ask_87"
    /\ "declarations" \in threads[t].guards
    /\ threads' = [threads EXCEPT ![t].pc = "ask_88", ![t].decls = function_declarations,
                                  ![t].guards = Release(t, "declarations")]
    /\ UNCHANGED <<main_vars, tools, function_declarations, conversation, found>>

\* ask, gemini.rs:88-91: the history is cloned under its lock, taken anew, and the
\* request is built
TaskAskCloneHistory(t) ==
    /\ threads[t].pc = "ask_88"
    /\ "conversation" \in threads[t].guards
    /\ threads' = [threads EXCEPT ![t].pc = "ask_93",
                                  ![t].request = MakePrompt(conversation, threads[t].decls),
                                  ![t].guards = Release(t, "conversation")]
    /\ UNCHANGED <<main_vars, tools, function_declarations, conversation, found>>

\* ask, gemini.rs:93-141: the backend answers; the texts to record are kept
TaskAskReceive(t, rep) ==
    /\ threads[t].pc = "ask_93"
    /\ LET a == AskReceive(conversation, rep)
           texts == IF a.result.ok
                    THEN SelectSeq(TextsOf(a.result.val), LAMBDA x : x # <<>>)
                    ELSE <<>>
       IN  threads' = [threads EXCEPT ![t] =
                          IF texts = <<>> THEN [IdleThread EXCEPT !.guards = threads[t].guards]
                          ELSE [IdleThread EXCEPT !.pc = "ask_149", !.texts = texts,
                                                  !.guards = threads[t].guards]]
    /\ UNCHANGED <<main_vars, tools, function_declarations, conversation, found>>

\* ask, gemini.rs:143-150: one text is recorded, under the lock of the history
TaskAskRecord(t) ==
    /\ threads[t].pc = "ask_149"
    /\ "conversation" \in threads[t].guards
    /\ Len(conversation) < MaxShared
    /\ conversation' = add_system_prompt(conversation, Head(threads[t].texts), "model")
    /\ threads' = [threads EXCEPT ![t] =
                      IF Tail(threads[t].texts) = <<>>
                      THEN [IdleThread EXCEPT !.guards = Release(t, "conversation")]
                      ELSE [IdleThread EXCEPT !.pc = "ask_149",
                                              !.texts = Tail(threads[t].texts),
                                              !.guards = Release(t, "conversation")]]
    /\ UNCHANGED <<main_vars, tools, function_declarations, found>>

\* add_system_prompt, gemini.rs:168-179
TaskAddSystemPrompt(t, prompt) ==
    /\ threads[t].pc = "add_system_prompt_171"
    /\ "conversation" \in threads[t].guards
    /\ Len(conversation) < MaxShared
    /\ conversation' = Feedback(conversation, prompt)
    /\ threads' = [threads EXCEPT ![t] =
                      [IdleThread EXCEPT !.guards = Release(t, "conversation")]]
    /\ UNCHANGED <<main_vars, tools, function_declarations, found>>

NextSharedClient ==
    \E t \in ThreadIds :
        \/ \E entry \in {"ask_84", "add_system_prompt_171"} : TaskCall(t, entry)
        \/ TaskAcquire(t)
        \/ \E prompt \in SharedPrompts : TaskAskPush(t, prompt)
        \/ TaskAskCloneTools(t)
        \/ TaskAskCloneHistory(t)
        \/ \E rep \in Replies : TaskAskReceive(t, rep)
        \/ TaskAskRecord(t)
        \/ \E prompt \in SharedNotes : TaskAddSystemPrompt(t, prompt)

SpecSharedClient == InitShared /\ [][NextSharedClient]_vars

\* Agent::add_tool, agent.rs:43-46: the insert, under the lock of the registry
TaskAddToolInsert(t, tool) ==
    /\ threads[t].pc = "add_tool_43"
    /\ "registry" \in threads[t].guards
    /\ Registrations < MaxRegs
    /\ tools' = HashMapInsert(tools, tool.name, tool)
    /\ threads' = [threads EXCEPT ![t] = [IdleThread EXCEPT !.pc = "add_tool_47",
                                                            !.tool = Some(tool),
                                                            !.guards = Release(t, "registry")]]
    /\ UNCHANGED <<main_vars, function_declarations, conversation, found>>

\* Agent::add_tool, agent.rs:47, and GeminiModel::add_tool, gemini.rs:155-166: the
\* declaration is pushed, under the lock of the declarations
TaskAddToolPush(t) ==
    /\ threads[t].pc = "add_tool_47"
    /\ "declarations" \in threads[t].guards
    /\ function_declarations' = ClientAddTool(function_declarations, Unwrap(threads[t].tool))
    /\ threads' = [threads EXCEPT ![t] =
                      [IdleThread EXCEPT !.guards = Release(t, "declarations")]]
    /\ UNCHANGED <<main_vars, tools, conversation, found>>

\* perform_function_call, main.rs:181: the lookup, under the lock of the registry; the
\* unwrap of a name that is not registered panics, which ends the task
TaskLookup(t, name) ==
    /\ threads[t].pc = "perform_function_call_181"
    /\ "registry" \in threads[t].guards
    /\ found' = Some([name |-> name, tool |-> HashMapGet(tools, name)])
    /\ threads' = [threads EXCEPT ![t] =
                      [IdleThread EXCEPT !.pc = IF HashMapGet(tools, name) = None
                                                THEN "panicked"
                                                ELSE "perform_function_call_185",
                                         !.tool = HashMapGet(tools, name),
                                         !.guards = Release(t, "registry")]]
    /\ UNCHANGED <<main_vars, tools, function_declarations, conversation>>

\* perform_function_call, main.rs:185-196: the exec of the tool found, awaited
TaskExec(t) ==
    /\ threads[t].pc = "perform_function_call_185"
    /\ \E res \in ExecOutcomes(Unwrap(threads[t].tool)) :
           threads' = [threads EXCEPT ![t] = [IdleThread EXCEPT !.guards = threads[t].guards]]
    /\ UNCHANGED <<main_vars, tools, function_declarations, conversation, found>>

NextSharedRegistry ==
    \E t \in ThreadIds :
        \/ \E entry \in {"add_tool_43", "perform_function_call_181"} : TaskCall(t, entry)
        \/ TaskAcquire(t)
        \/ TaskExec(t)
        \/ \E tool \in RegistryTools : TaskAddToolInsert(t, tool)
        \/ TaskAddToolPush(t)
        \/ \E name \in RegistryNames : TaskLookup(t, name)

SpecSharedRegistry == InitShared /\ [][NextSharedRegistry]_vars

(* The tasks use the client and the registry together: a query, a note for the history,  *)
(* a registration and a dispatch may each be under way in either task.                    *)
LockTools == {Tool("read_file", "first description")}
LockReplies == FollowReplies

NextLocks ==
    \E t \in ThreadIds :
        \/ \E entry \in {"ask_84", "add_system_prompt_171", "add_tool_43",
                          "perform_function_call_181"} : TaskCall(t, entry)
        \/ TaskAcquire(t)
        \/ \E prompt \in SharedPrompts : TaskAskPush(t, prompt)
        \/ TaskAskCloneTools(t)
        \/ TaskAskCloneHistory(t)
        \/ \E rep \in LockReplies : TaskAskReceive(t, rep)
        \/ TaskAskRecord(t)
        \/ \E prompt \in SharedNotes : TaskAddSystemPrompt(t, prompt)
        \/ \E tool \in LockTools : TaskAddToolInsert(t, tool)
        \/ TaskAddToolPush(t)
        \/ \E name \in {"read_file"} : TaskLookup(t, name)
        \/ TaskExec(t)

SpecLocks == InitShared /\ [][NextLocks]_vars

(* main with tools registered while it runs: read_file is registered before the loop,    *)
(* list_files by a task, during the loop.                                                 *)
InitIncremental ==
    /\ pc = "top"
    /\ is_retry = FALSE
    /\ retry_attempt = 0
    /\ tools = HashMapInsert({}, ReadFileTool.name, ReadFileTool)
    /\ function_declarations = ClientAddTool(<<>>, ReadFileTool)
    /\ conversation = <<InitialPrompt>>
    /\ request = MakePrompt(<<>>, <<>>)
    /\ last = NoQuery
    /\ responses = <<>>
    /\ function_calls = <<>>
    /\ idx = 1
    /\ tool_outputs = <<>>
    /\ tool_use = <<>>
    /\ stdout = <<Println(<<"Chat with VOO (use 'ctrl-c' to quit)\n">>)>>
    /\ found = None
    /\ round_base = 1
    /\ fc_responses = 0
    /\ dispatch_rounds = 0
    /\ input = Ok(<<>>)
    /\ succeeded = {}
    /\ threads = [t \in ThreadIds |-> IdleThread]

\* the model calls list_files, alone or after read_file, declared or not
IncrementalReplies ==
    {Candidates(Some(<<Content(ps, "model")>>)) :
        ps \in {<<FunctionCallPart(ListFileTool.name, Args)>>,
                <<FunctionCallPart(ReadFileTool.name, Args),
                  FunctionCallPart(ListFileTool.name, Args)>>}}
\* the task that registers
Registrars == {"a"}

NextIncremental ==
    \/ \E io \in FailedReads : ReadFails(io)
    \/ \E line \in Lines : ReadLine(line)
    \/ RetryQuery
    \/ \E rep \in IncrementalReplies : AskReturns(rep)
    \/ ExecCall
    \/ FollowupAsk
    \/ \E rep \in FollowReplies : FollowupReturns(rep)
    \/ \E t \in Registrars :
          \/ TaskCall(t, "add_tool_43")
          \/ TaskAcquire(t)
          \/ TaskAddToolInsert(t, ListFileTool)
          \/ TaskAddToolPush(t)

SpecIncremental == InitIncremental /\ [][NextIncremental]_vars

-----------------------------------------------------------------------------
(* Reading the history *)

TextOfTurn(c) == Unwrap(c.parts[1].text)
IsInputTurn(c) == c.role = "user" /\ TextOfTurn(c) \in Lines
IsRetryTurn(c) == c.role = "user" /\ TextOfTurn(c) = RetryInput
IsRequestTurn(c) == IsInputTurn(c) \/ IsRetryTurn(c)
IsToolOutputTurn(c) == c.role = "user" /\ starts_with(TextOfTurn(c), <<"Tool use output:\n\n">>)
IsQueryErrorTurn(c) ==
    c.role = "user"
    /\ (starts_with(TextOfTurn(c), <<"AgentError: ">>) \/ TextOfTurn(c) = <<"ExpiredApiKey">>)
IsDispatchErrorTurn(c) ==
    c.role = "user" /\ starts_with(TextOfTurn(c), <<"Error performing function call: ">>)
IsModelRecordTurn(c) == c.role = "model" /\ TextOfTurn(c) = ModelText
IsPrintedTextTurn(c) == c.role = "user" /\ TextOfTurn(c) = ModelText

\* the turns added since the current loop iteration began
Round == SubSeq(conversation, round_base + 1, Len(conversation))
TurnIs(c, kind) ==
    CASE kind = "request" -> IsRequestTurn(c)
      [] kind = "retry" -> IsRetryTurn(c)
      [] kind = "tool_output" -> IsToolOutputTurn(c)
      [] kind = "query_error" -> IsQueryErrorTurn(c)
      [] kind = "dispatch_error" -> IsDispatchErrorTurn(c)
      [] kind = "model_record" -> IsModelRecordTurn(c)
      [] kind = "printed_text" -> IsPrintedTextTurn(c)
CountTurns(seq, kind) == Cardinality({i \in 1..Len(seq) : TurnIs(seq[i], kind)})

\* the turns added since the last line read from the user
LastInput ==
    IF \E i \in 1..Len(conversation) : IsInputTurn(conversation[i])
    THEN CHOOSE i \in 1..Len(conversation) :
             /\ IsInputTurn(conversation[i])
             /\ \A j \in (i + 1)..Len(conversation) : ~IsInputTurn(conversation[j])
    ELSE 0
SinceInput == SubSeq(conversation, LastInput + 1, Len(conversation))

\* main is at the loop head and will read a line: main.rs:54-63
AwaitingInput == pc = "top" /\ ~ResetRetry(is_retry, retry_attempt).is_retry

IsPrefix(s, t) == Len(s) <= Len(t) /\ SubSeq(t, 1, Len(s)) = s

\* the last turn of a history
LastTurn(conv) == conv[Len(conv)]

-----------------------------------------------------------------------------
(* Claims *)

\* C1: a batch whose tool fails on every exec is executed max_retry times and no more:
\* main is not in the dispatch loop of a batch that has already failed max_retry times.
C1_BoundedDispatch ==
    pc = "dispatch" => CountTurns(Round, "dispatch_error") < max_retry

\* C2: once a query has returned the expired-credential error, main has terminated
\* (so no query is in flight or made afterwards).
C2_ExpiredTerminates ==
    last.result = "expired" => pc = "done"

\* C3: when main is back at awaiting user input, it has performed one dispatch round
\* for every response that carried function calls, those answering a tool-output query
\* included.
C3_RoundPerFunctionCallResponse ==
    AwaitingInput => dispatch_rounds = fc_responses

\* a loop iteration that dispatched a batch, none of whose execs failed, is complete
DispatchRoundDone ==
    /\ pc = "top"
    /\ dispatch_rounds >= 1
    /\ CountTurns(Round, "dispatch_error") = 0

C5_NoCrashOnUnknownTool ==
    pc # "panicked"

\* C6 as claimed: after a successful backend response of zero parts there is no error,
\* no output and no retry: main awaits user input.
C6_ZeroPartsIsSilent ==
    last.zero_parts =>
        /\ last.result = "ok"
        /\ stdout = <<>>
        /\ pc = "top" => AwaitingInput

\* C6 as amended: a successful backend response of zero parts causes no tool dispatch
\* and shows no text, but ask returns the recoverable error "No response from Gemini":
\* it is logged and appended to the history as feedback, and when it answered the query
\* for user input or a "Retry." query, is_retry is set, so that the next step is a
\* "Retry." query unless the retry budget is used up.
C6_ZeroPartsIsRecoverableError ==
    last.zero_parts =>
        /\ last.result = "error"
        /\ pc \in {"top", "feed"}
        /\ stdout = <<LogError(<<"AgentError: ">> \o NoResponseMsg)>>
        /\ conversation[Len(conversation)]
               = Content(<<Part(<<"AgentError: ">> \o NoResponseMsg)>>, "user")
        /\ last.query \in {"input", "retry"} =>
               /\ pc = "top"
               /\ is_retry
               /\ AwaitingInput <=> retry_attempt >= max_retry

\* the query for user input was answered with zero parts and main is about to retry
C6_Witness ==
    /\ last.zero_parts
    /\ last.query = "input"
    /\ pc = "top"
    /\ ~AwaitingInput

\* C7: when a query for fresh user input is in flight, the retry counter is 0: the
\* retry context before it (ended by success or by exhaustion) left no count behind.
C7_FreshBudget ==
    (pc = "asking" /\ last.query = "input") => retry_attempt = 0

\* C8: at most max_retry "Retry." queries are made for one user input; when the budget
\* is used up after a failed query the failure is in the history as feedback and main
\* awaits user input (it has not terminated and does not retry).
C8_BoundedRetries ==
    /\ CountTurns(SinceInput, "retry") <= max_retry
    /\ retry_attempt <= max_retry
    /\ (pc = "top" /\ last.result = "error" /\ last.query # "followup"
           /\ retry_attempt >= max_retry) =>
           /\ IsQueryErrorTurn(conversation[Len(conversation)])
           /\ AwaitingInput

\* every query for one user input failed, max_retry retries were made, input is awaited
C8_Witness ==
    /\ AwaitingInput
    /\ CountTurns(SinceInput, "retry") = max_retry
    /\ CountTurns(SinceInput, "query_error") = max_retry + 1
    /\ Len(SinceInput) = 2 * max_retry + 1

\* the tool of the last add_tool call under a name
LastRegistered(name) ==
    LET i == CHOOSE i \in 1..Len(function_declarations) :
                 /\ function_declarations[i].name = name
                 /\ \A j \in (i + 1)..Len(function_declarations) :
                        function_declarations[j].name # name
    IN  Tool(function_declarations[i].name, function_declarations[i].description)

RegisteredNames == {function_declarations[i].name : i \in 1..Len(function_declarations)}

\* C9: after any sequence of add_tool calls the registry holds exactly one entry per
\* registered name, and lookup of a name returns the tool registered last under it.
C9_LastWriteWins ==
    /\ \A e1 \in tools : \A e2 \in tools : e1.key = e2.key => e1 = e2
    /\ {e.key : e \in tools} = RegisteredNames
    /\ \A n \in RegistryNames :
           HashMapGet(tools, n) = IF n \in RegisteredNames THEN Some(LastRegistered(n)) ELSE None

\* read_file was registered twice with different descriptions and then looked up:
\* the lookup returned the second
C9_Witness ==
    /\ Len(function_declarations) >= 2
    /\ function_declarations[1] = tool_definition(Tool("read_file", "first description"))
    /\ function_declarations[Len(function_declarations)]
           = tool_definition(Tool("read_file", "second description"))
    /\ found = Some([name |-> "read_file",
                     tool |-> Some(Tool("read_file", "second description"))])
    /\ Cardinality(tools) = 1

\* C10: the history is append-only: every step leaves the history it found as a prefix
\* of the history it leaves.
C10_AppendOnly ==
    [][IsPrefix(conversation, conversation')]_vars

\* the history holds turns pushed by ask, recorded by ask and appended by main
C10_Witness ==
    /\ Len(conversation) >= 5
    /\ \E i \in 1..Len(conversation) : IsModelRecordTurn(conversation[i])
    /\ \E i \in 1..Len(conversation) : IsQueryErrorTurn(conversation[i])
    /\ \E i \in 1..Len(conversation) : IsToolOutputTurn(conversation[i])

\* C11: the snapshot that ask sends to the backend ends with the prompt turn that the
\* same ask call appended, whatever other appends run concurrently.
C11_SnapshotEndsWithPrompt ==
    \A t \in ThreadIds :
        threads[t].pc = "ask_93" =>
            /\ threads[t].request.contents # <<>>
            /\ LastTurn(threads[t].request.contents)
                   = Content(<<Part(threads[t].prompt)>>, "user")

\* the line begins with the token exit
BeginsWithExit(line) ==
    /\ Len(line) >= 4
    /\ line[1] = "e" /\ line[2] = "x" /\ line[3] = "i" /\ line[4] = "t"

\* C12: a line read from the user that begins with exit ends the session cleanly: it is
\* not appended to the history and not sent to the model; every other line read is sent
\* to the model as one user turn; no step follows termination.
C12_ExitEndsSession ==
    [][/\ pc # "done"
       /\ \A line \in Lines :
              ReadLine(line) =>
                  IF BeginsWithExit(line)
                  THEN /\ pc' = "done"
                       /\ conversation' = conversation
                       /\ request' = request
                       /\ last' = NoQuery
                  ELSE /\ pc' = "asking"
                       /\ conversation' = Append(conversation, Content(<<Part(line)>>, "user"))
                       /\ request'.contents = conversation'
                       /\ last' = Sent("input")]_vars

\* the user ended a conversation with the line "exit\n"
C12_Witness ==
    /\ pc = "done"
    /\ input = Ok(<<"e", "x", "i", "t", "\n">>)
    /\ last = NoQuery
    /\ Len(conversation) >= 3

\* the error message holds the text of an expired key
HasExpiredText(msg) == \E i \in 1..Len(msg) : msg[i] = "API key expired."

\* how a step classified the backend answer rep
ClassifiedAsClaimed(rep) ==
    /\ last'.result = "expired" <=> (IsSome(rep.error) /\ HasExpiredText(Unwrap(rep.error)))
    /\ (IsSome(rep.error) /\ ~HasExpiredText(Unwrap(rep.error))) =>
           /\ last'.result = "error"
           /\ LastTurn(conversation')
                  = Content(<<Part(<<"AgentError: ">> \o Unwrap(rep.error))>>, "user")

\* C13: ask classifies an answer with an error envelope as ExpiredApiKey exactly when
\* the message contains "API key expired.", and as a recoverable error that carries the
\* message otherwise; an answer without an envelope is never classified as expired.
C13_Classification ==
    [][/\ \A rep \in Replies : AskReturns(rep) => ClassifiedAsClaimed(rep)
       /\ \A rep \in Replies : FollowupReturns(rep) => ClassifiedAsClaimed(rep)]_vars

\* one history saw both classes: a quota error, recoverable, and an expired key
C13_Witness ==
    /\ last.result = "expired"
    /\ pc = "done"
    /\ \E i \in 1..Len(conversation) :
           conversation[i] = Content(<<Part(<<"AgentError: ", "Quota exceeded.">>)>>, "user")

\* the query of main.rs:80 was answered without any function call
TextOnlyAnswered ==
    /\ pc = "top"
    /\ last.result = "ok"
    /\ last.query \in {"input", "retry"}
    /\ fc_responses = 0

C15_FailedReadTerminates ==
    [][/\ pc # "failed"
       /\ \A io \in FailedReads :
              ReadFails(io) =>
                  /\ pc' = "failed"
                  /\ ~input'.ok
                  /\ conversation' = conversation
                  /\ request' = request
                  /\ last' = NoQuery]_vars

\* a read failed in the middle of a conversation
C15_Witness ==
    /\ pc = "failed"
    /\ ~input.ok
    /\ Len(conversation) >= 3

\* C16: agent.reader().read() returns what the terminal reader produced, unchanged (the
\* line as typed, or the io error as a UserInputError), and the read touches neither the
\* registry nor the client: the only change to the history in the step is the turn of
\* the query that main makes with the line.
C16_ReadThroughReader ==
    [][/\ \A line \in Lines :
              ReadLine(line) =>
                  /\ input' = Ok(line)
                  /\ tools' = tools
                  /\ function_declarations' = function_declarations
                  /\ conversation' \in {conversation, AskSend(conversation, line)}
       /\ \A io \in FailedReads :
              ReadFails(io) =>
                  /\ input' = Err(UserInputError(
                         IF io.failed = "flush"
                         THEN <<"Error flushing stdout: ">> \o io.error ELSE io.error))
                  /\ tools' = tools
                  /\ function_declarations' = function_declarations
                  /\ conversation' = conversation]_vars

\* a line was read and is on its way to the model, after a read in an earlier iteration
C16_Witness ==
    /\ pc = "asking"
    /\ input = Ok(<<"h", "i">>)
    /\ last = Sent("input")
    /\ CountTurns(conversation, "request") >= 2

\* the function calls of a batch, in the order of their parts
Calls(fcs) == SelectSeq(fcs, LAMBDA c : IsSome(c))

\* the position in fcs of its k-th function call
PositionOf(fcs, k) ==
    CHOOSE j \in 1..Len(fcs) :
        IsSome(fcs[j]) /\ Cardinality({i \in 1..j : IsSome(fcs[i])}) = k

\* what a tool returns when its exec succeeds, as perform_function_call keeps it
OutputOf(name) ==
    json_to_string(IF name = "read_file" THEN <<"fn main() {}">> ELSE <<"a.txt, b.txt">>)

\* the turn that feeds a tool output back
ToolOutputTurn(output) ==
    Content(<<Part(<<"Tool use output:\n\n">> \o output \o <<"\n">>)>>, "user")

\* C17: the function calls of a batch are executed one at a time in the order of their
\* parts (the call executed in a step is the one after those whose outputs are kept),
\* and the outputs are fed back to the model one at a time in that order.
C17_SequentialInOrder ==
    [][/\ pc = "dispatch" =>
              LET calls == Calls(function_calls)
                  k == Len(tool_outputs) + 1
                  fc == Unwrap(calls[k])
              IN  /\ k <= Len(calls)
                  /\ idx = PositionOf(function_calls, k)
                  /\ \A j \in 1..(k - 1) : tool_outputs[j] = OutputOf(Unwrap(calls[j]).name)
                  /\ stdout'[1] = Println(<<fc.name, "> ">> \o fc.args)
                  /\ \/ /\ pc' = "dispatch"
                        /\ IsDispatchErrorTurn(LastTurn(conversation'))
                        /\ tool_outputs' = <<>>
                        /\ idx' = PositionOf(function_calls, 1)
                     \/ /\ pc' = "dispatch"
                        /\ conversation' = conversation
                        /\ k < Len(calls)
                        /\ tool_outputs' = Append(tool_outputs, OutputOf(fc.name))
                        /\ idx' = PositionOf(function_calls, k + 1)
                     \/ /\ pc' = "feed"
                        /\ conversation' = conversation
                        /\ k = Len(calls)
                        /\ tool_use' = [j \in 1..Len(calls) |-> OutputOf(Unwrap(calls[j]).name)]
       /\ pc = "feed" =>
              /\ pc' = "followup"
              /\ conversation' = Append(conversation, ToolOutputTurn(Head(tool_use)))
              /\ tool_use' = Tail(tool_use)]_vars

\* a batch of list_files then read_file was executed and fed back in that order
C17_Witness ==
    /\ pc = "top"
    /\ dispatch_rounds = 1
    /\ \E i \in 1..Len(Round) : \E j \in (i + 1)..Len(Round) :
           /\ Round[i] = ToolOutputTurn(OutputOf("list_files"))
           /\ Round[j] = ToolOutputTurn(OutputOf("read_file"))

\* C18: a query appends a user turn to the history only for fresh user input: the
\* re-query of a retry appends no turn, so the history holds no "Retry." turn.
C18_RetryAppendsNoTurn ==
    \A i \in 1..Len(conversation) : ~IsRetryTurn(conversation[i])

\* C19: at most one query is in flight: a query is in flight exactly while main waits
\* in ask, and a step that sends a query starts where the query before it has returned
\* and its result has been handled (nothing is left of the batch being executed).
C19_OneQueryInFlight ==
    [][/\ last.result = "pending" <=> pc \in {"asking", "followup"}
       /\ last'.result = "pending" =>
              /\ last.result # "pending"
              /\ pc \in {"top", "feed"}
              /\ tool_outputs = <<>>
              /\ request' = MakePrompt(conversation', function_declarations)
       /\ request' # request => last'.result = "pending"]_vars

\* the second tool output of a batch is on its way to the model after the first query
\* returned
C19_Witness ==
    /\ pc = "followup"
    /\ last = Sent("followup")
    /\ CountTurns(Round, "tool_output") = 2
    /\ tool_use = <<>>

\* the names whose insert has been made, by an add_tool call finished or not
InsertedNames ==
    RegisteredNames
    \cup {Unwrap(threads[t].tool).name : t \in {u \in ThreadIds : threads[u].pc = "add_tool_47"}}

\* C20: with register and lookup calls of several tasks interleaved, no registration is
\* lost (every name inserted has its entry, one entry per name) and a lookup returns
\* nothing or one complete tool that a register call inserted under the name looked up.
C20_RegistryLinearizable ==
    /\ [](/\ {e.key : e \in tools} = InsertedNames
          /\ \A e1 \in tools : \A e2 \in tools : e1.key = e2.key => e1 = e2
          /\ \A e \in tools : e.value \in RegistryTools /\ e.value.name = e.key
          /\ IsSome(found) =>
                 LET f == Unwrap(found)
                 IN  \/ f.tool = None
                     \/ Unwrap(f.tool) \in RegistryTools /\ Unwrap(f.tool).name = f.name)
    /\ [][\A t \in ThreadIds : \A name \in RegistryNames :
              TaskLookup(t, name) =>
                  Unwrap(found').tool =
                      IF name \in InsertedNames
                      THEN Some(CHOOSE tool \in RegistryTools :
                                    [key |-> name, value |-> tool] \in tools)
                      ELSE None]_vars

\* both tasks are inside add_tool, each has made its insert, neither has pushed its
\* declaration; a lookup made between the two inserts found the tool inserted first
C20_Witness ==
    /\ \A t \in ThreadIds : threads[t].pc = "add_tool_47"
    /\ Cardinality(tools) = 2
    /\ function_declarations = <<>>
    /\ found = Some([name |-> "list_files",
                     tool |-> Some(Tool("list_files", "second description"))])

\* C22: main sends an automatic "Retry." query only when the most recent query failed
\* with a recoverable error: at the loop head, if main is about to retry, the last
\* query of the iteration just ended returned an error.
C22_RetryOnlyAfterFailedQuery ==
    (pc = "top" /\ ~AwaitingInput) => last.result = "error"

\* C23: a function call of a batch is executed successfully at most once: the call whose
\* exec succeeds in a step has not succeeded in an earlier attempt of the batch.
C23_NoReExecution ==
    [][(/\ pc = "dispatch"
        /\ \/ pc' = "feed"
           \/ Len(tool_outputs') > Len(tool_outputs)) => idx \notin succeeded]_vars

\* C24: every text part returned by the model is recorded in the history exactly once:
\* after a response of text parts only, the iteration has added its request turn and
\* one turn per text part shown.
C24_TextRecordedOnce ==
    TextOnlyAnswered => Len(Round) = 1 + Len(stdout)

\* the declarations the client sends with a query made now, gemini.rs:87-91
DeclarationsSent == MakePrompt(conversation, function_declarations).tools[1].function_declarations

\* C25: after any sequence of add_tool calls, every registered name is declared to the
\* model exactly once, with the definition of the tool that lookup returns for it.
C25_DeclarationsMatchRegistry ==
    \A e \in tools :
        /\ Cardinality({i \in 1..Len(DeclarationsSent) : DeclarationsSent[i].name = e.key}) = 1
        /\ \A i \in 1..Len(DeclarationsSent) :
               DeclarationsSent[i].name = e.key =>
                   DeclarationsSent[i] = tool_definition(Unwrap(HashMapGet(tools, e.key)))

\* C26: a task holds at most one of the three locks (registry, declarations, history);
\* it holds none while it waits for the backend (gemini.rs:93) or for the exec of a tool
\* (main.rs:185); a task that holds a lock is at the statement the lock guards and not
\* waiting for another lock, so that no task waits for a task that waits; and no lock
\* is held by two tasks.
C26_OneLockNeverAcrossAwait ==
    \A t \in ThreadIds :
        /\ Cardinality(threads[t].guards) <= 1
        /\ threads[t].pc \in {"ask_93", "perform_function_call_185"} => threads[t].guards = {}
        /\ threads[t].guards # {} => threads[t].guards = {LockAt(threads[t].pc)}
        /\ \A u \in ThreadIds \ {t} : threads[t].guards \cap threads[u].guards = {}

\* a task waits for the backend while the other holds the lock of the declarations for
\* its registration, the registry already holding the tool
C26_Witness ==
    \E t \in ThreadIds : \E u \in ThreadIds \ {t} :
        /\ threads[t].pc = "ask_93"
        /\ threads[u].pc = "add_tool_47"
        /\ threads[u].guards = {"declarations"}
        /\ tools # {}

\* the names declared in the query last sent
DeclaredInRequest ==
    {request.tools[1].function_declarations[i].name :
        i \in DOMAIN request.tools[1].function_declarations}

\* C21: the name of a function call is resolved against the registry as it is when the
\* call is dispatched, in every attempt of the batch: a name the registry holds at that
\* moment is found and its tool executed (the call is echoed), whether or not the query
\* declared it; a name the registry does not hold ends the program.
C21_ResolvedAtDispatchTime ==
    [][(pc = "dispatch" /\ threads' = threads) =>
           LET fc == Unwrap(function_calls[idx])
           IN  IF \E e \in tools : e.key = fc.name
               THEN /\ pc' # "panicked"
                    /\ stdout' # <<>>
                    /\ Head(stdout') = Println(<<fc.name, "> ">> \o fc.args)
               ELSE pc' = "panicked"]_vars

\* list_files, registered after the query was sent, has been executed in the second
\* attempt of its batch
C21_Witness ==
    /\ pc = "feed"
    /\ is_retry
    /\ Len(tool_use) = 2
    /\ stdout = <<Println(<<ListFileTool.name, "> ">> \o Args)>>
    /\ ListFileTool.name \notin DeclaredInRequest

====
